---- MODULE Spec2Model ----
(***************************************************************************)
(* Taskora (src/app.py): account store, task store, login session and the  *)
(* request handlers register, login, dashboard, complete, delete,          *)
(* subscribe and logout, each handler one atomic action.                   *)
(*   Spec        several accounts, a small task store                      *)
(*   SpecGate    one account, a task store that can pass the free limit    *)
(*   SpecConc    one account; the dashboard POST split into its read and   *)
(*               its gate-and-commit step, two requests may interleave     *)
(*   SpecStreak  accounts and logins over calendar days, with the history  *)
(*               of each account's logins                                  *)
(***************************************************************************)
EXTENDS Integers, Sequences, FiniteSets, TLC

\* ---------------------------------------------------------------- bounds
MaxTasks == 3          \* rows the task store of several accounts may hold
ExtraTasks == 1        \* rows beyond FREE_LIMIT the store of one account may hold
MaxStreak == 2         \* largest streak a run counts up to
MaxDay == 2            \* last calendar day of a run (days 0..MaxDay)

\* ------------------------------------------------------ program constants
FREE_LIMIT == 5        \* "len(tasks) >= 5"

\* ----------------------------------------------------------------- inputs
Names == {"alice", "bob"}
Passwords == {"pw1", "pw2"}
RegisterPasswords == {"pw1"}
Clients == {"c1"}
Slots == {"r1", "r2"}
\* request.form['focus_minutes'] as typed: a string of decimal digits
FocusForms == {<<>>, <<2, 5>>}
NoUser == 0

VARIABLES
    users,       \* account store: sequence of rows, row i has id i
    tasks,       \* task store: function from task id to row
    session,     \* per client: the logged-in account id, or NoUser
    resp,        \* the response to the latest request
    inflight,    \* per slot: a dashboard POST between its read and its commit
    overlapped,  \* history: two dashboard POSTs were in flight together
    today,       \* the calendar day
    logins       \* history: per account, the days of its latest two logins

storeVars == <<users, tasks, session, resp>>
raceVars == <<inflight, overlapped>>
dateVars == <<today, logins>>
vars == <<users, tasks, session, resp, inflight, overlapped, today, logins>>

\* ------------------------------------------------------------ data model
\* class User: id is the row's position; username, password, plan, streak
NewUser(name, hash) ==
    [username |-> name, password |-> hash, plan |-> "Free", streak |-> 0]

\* class Task: the columns a handler reads or writes after the insert.
\* content, due_date, due_time, priority, category and created_date are
\* strings stored once by the insert and never read or written again.
NewTask(focus, uid) ==
    [focus_minutes |-> focus, status |-> "Pending", user_id |-> uid]

\* werkzeug generate_password_hash / check_password_hash
generate_password_hash(pw) == <<"hash", pw>>
check_password_hash(hash, pw) == hash = <<"hash", pw>>

\* int(request.form['focus_minutes']): ValueError on the empty string
RECURSIVE DigitsValue(_)
DigitsValue(s) ==
    IF s = <<>> THEN 0 ELSE 10 * DigitsValue(SubSeq(s, 1, Len(s) - 1)) + s[Len(s)]

IsInt(s) == Len(s) > 0
ParseInt(s) == DigitsValue(s)

\* User.query.filter_by(username=...).first()
FindUser(name) ==
    IF \E i \in 1..Len(users) : users[i].username = name
    THEN CHOOSE i \in 1..Len(users) :
            /\ users[i].username = name
            /\ \A j \in 1..Len(users) : users[j].username = name => i <= j
    ELSE NoUser

\* Task.query.filter_by(user_id=current_user.id).all()
TasksOfUser(T, uid) == {id \in DOMAIN T : T[id].user_id = uid}

\* INTEGER PRIMARY KEY of SQLite: the largest id in the table plus one
RECURSIVE SetMax(_)
SetMax(S) ==
    IF S = {} THEN 0
    ELSE LET x == CHOOSE y \in S : TRUE
             m == SetMax(S \ {x})
         IN  IF x > m THEN x ELSE m

NextTaskId(T) == SetMax(DOMAIN T) + 1

InsertTask(T, row) == [id \in DOMAIN T \cup {NextTaskId(T)} |->
                          IF id \in DOMAIN T THEN T[id] ELSE row]

\* mutant: the delete takes every row of the same owner with it
DeleteTasksOfOwner(T, id) ==
    [j \in {k \in DOMAIN T : T[k].user_id # T[id].user_id} |-> T[j]]

DeleteTask(T, id) == [j \in DOMAIN T \ {id} |-> T[j]]

RECURSIVE SumFocus(_, _)
SumFocus(T, S) ==
    IF S = {} THEN 0
    ELSE LET x == CHOOSE y \in S : TRUE
         IN  T[x].focus_minutes + SumFocus(T, S \ {x})

\* mutant: the rate cut off after the second decimal instead of rounded
RoundDown2(completed, total) == (10000 * completed) \div total

\* round(x, 2) of x = completed / total * 100, in hundredths: to the nearest
\* hundredth, a tie to the even one (the float x differs from the exact
\* quotient by far less than the distance to a tie for the totals modelled;
\* the first total whose float falls on the other side of a tie is 160)
Round2(completed, total) ==
    LET num == 10000 * completed
        q == num \div total
        r == num % total
    IN  IF 2 * r < total THEN q
        ELSE IF 2 * r > total THEN q + 1
        ELSE IF q % 2 = 0 THEN q ELSE q + 1

CompletionRate(completed, total) ==
    IF total > 0 THEN Round2(completed, total) ELSE 0

\* ------------------------------------------------------------- responses
\* op: the handler that answered; kind: what it returned
Plain(op, kind) ==
    [op |-> op, kind |-> kind, total_tasks |-> 0, completed_tasks |-> 0,
     completion_rate |-> 0, total_focus |-> 0]

\* the dashboard page of account uid over task store T
DashboardPage(op, T, uid) ==
    LET mine == TasksOfUser(T, uid)
        total == Cardinality(mine)
        completed == Cardinality({id \in mine : T[id].status = "Completed"})
    IN  [op |-> op, kind |-> "page",
         total_tasks |-> total, completed_tasks |-> completed,
         completion_rate |-> CompletionRate(completed, total),
         total_focus |-> SumFocus(T, mine)]

\* @login_required with no session: redirect to the login view
Unauthorized(c) ==
    /\ session[c] = NoUser
    /\ resp' = Plain("login_required", "redirect")
    /\ UNCHANGED <<users, tasks, session>>

\* ------------------------------------------------------------- handlers
\* /register POST: the unique username makes the commit of a duplicate fail
register(name, pw) ==
    /\ IF FindUser(name) # NoUser
       THEN /\ resp' = Plain("register", "error")
            /\ UNCHANGED users
       ELSE /\ users' = Append(users, NewUser(name, generate_password_hash(pw)))
            /\ resp' = Plain("register", "redirect")
    /\ UNCHANGED <<tasks, session>>

\* mutant: a login that counts the streak up
LoginCountingStreak(c, name, pw) ==
    LET uid == FindUser(name)
    IN  /\ IF uid # NoUser /\ check_password_hash(users[uid].password, pw)
           THEN /\ session' = [session EXCEPT ![c] = uid]
                /\ users' = [users EXCEPT ![uid].streak = @ + 1]
                /\ resp' = Plain("login", "redirect")
           ELSE /\ resp' = Plain("login", "page")
                /\ UNCHANGED <<session, users>>
        /\ UNCHANGED tasks

\* "if user and check_password_hash(user.password, ...)"
LoginOk(name, pw) ==
    /\ FindUser(name) # NoUser
    /\ check_password_hash(users[FindUser(name)].password, pw)

\* /login POST: login_user(user), or the form again
login(c, name, pw) ==
    LET uid == FindUser(name)
    IN  /\ IF LoginOk(name, pw)
           THEN /\ session' = [session EXCEPT ![c] = uid]
                /\ resp' = Plain("login", "redirect")
           ELSE /\ resp' = Plain("login", "page")
                /\ UNCHANGED session
        /\ UNCHANGED <<users, tasks>>

\* /logout
logout(c) ==
    \/ Unauthorized(c)
    \/ /\ session[c] # NoUser
       /\ session' = [session EXCEPT ![c] = NoUser]
       /\ resp' = Plain("logout", "redirect")
       /\ UNCHANGED <<users, tasks>>

\* /subscribe: a static page
subscribe(c) ==
    \/ Unauthorized(c)
    \/ /\ session[c] # NoUser
       /\ resp' = Plain("subscribe", "page")
       /\ UNCHANGED <<users, tasks, session>>

\* mutant: the gate lets the count pass the limit by one
LimitReachedOver(plan, ntasks) == plan = "Free" /\ ntasks > FREE_LIMIT

\* mutant: the gate forgets the plan
LimitReachedAnyPlan(plan, ntasks) == ntasks >= FREE_LIMIT

\* the plan gate of the dashboard POST
LimitReached(plan, ntasks) == plan = "Free" /\ ntasks >= FREE_LIMIT

\* dashboard POST after "tasks = ....all()": the gate on the count it read,
\* the insert (int() of the focus field raises before it) and the page
CommitPost(uid, ntasks, form) ==
    /\ IF LimitReached(users[uid].plan, ntasks)
       THEN /\ resp' = Plain("dashboard_post", "limit")
            /\ UNCHANGED tasks
       ELSE IF ~IsInt(form)
       THEN /\ resp' = Plain("dashboard_post", "error")
            /\ UNCHANGED tasks
       ELSE /\ tasks' = InsertTask(tasks, NewTask(ParseInt(form), uid))
            /\ resp' = DashboardPage("dashboard_post", tasks', uid)
    /\ UNCHANGED <<users, session>>

\* mutant: the gate counts the tasks that are not completed
GateCountOpen(T, uid) ==
    Cardinality({id \in TasksOfUser(T, uid) : T[id].status # "Completed"})

\* "len(tasks)" of the tasks the handler read on entry
GateCount(T, uid) == Cardinality(TasksOfUser(T, uid))

\* /dashboard, the request served alone: a POST creates a task first, and
\* both methods answer with the page
dashboard(c, method, form) ==
    \/ Unauthorized(c)
    \/ /\ session[c] # NoUser
       /\ IF method = "POST"
          THEN CommitPost(session[c], GateCount(tasks, session[c]), form)
          ELSE /\ resp' = DashboardPage("dashboard_get", tasks, session[c])
               /\ UNCHANGED <<users, tasks, session>>

\* mutant: completing toggles the status
CompleteToggle(c, id) ==
    \/ Unauthorized(c)
    \/ /\ session[c] # NoUser
       /\ IF id \notin DOMAIN tasks
          THEN /\ resp' = Plain("complete", "error")
               /\ UNCHANGED <<users, tasks>>
          ELSE /\ tasks' = [tasks EXCEPT ![id].status =
                               IF @ = "Completed" THEN "Pending" ELSE "Completed"]
               /\ IF users[session[c]].plan # "Free"
                  THEN /\ users[session[c]].streak < MaxStreak
                       /\ users' = [users EXCEPT ![session[c]].streak = @ + 1]
                  ELSE UNCHANGED users
               /\ resp' = Plain("complete", "redirect")
       /\ UNCHANGED session

\* /complete/<id>: Task.query.get(id) is None for a missing id and the
\* assignment to its status raises
complete(c, id) ==
    \/ Unauthorized(c)
    \/ /\ session[c] # NoUser
       /\ IF id \notin DOMAIN tasks
          THEN /\ resp' = Plain("complete", "error")
               /\ UNCHANGED <<users, tasks>>
          ELSE /\ tasks' = [tasks EXCEPT ![id].status = "Completed"]
               /\ IF users[session[c]].plan # "Free"
                  THEN /\ users[session[c]].streak < MaxStreak
                       /\ users' = [users EXCEPT ![session[c]].streak = @ + 1]
                  ELSE UNCHANGED users
               /\ resp' = Plain("complete", "redirect")
       /\ UNCHANGED session

\* /delete/<id>: db.session.delete(None) raises for a missing id
delete(c, id) ==
    \/ Unauthorized(c)
    \/ /\ session[c] # NoUser
       /\ IF id \notin DOMAIN tasks
          THEN /\ resp' = Plain("delete", "error")
               /\ UNCHANGED tasks
          ELSE /\ tasks' = DeleteTask(tasks, id)
               /\ resp' = Plain("delete", "redirect")
       /\ UNCHANGED <<users, session>>

\* ----------------------------------------------------------------- Init
\* The database file as the server finds it: empty, or holding the account
\* an administrator has activated ("After payment, contact admin to
\* activate"; no handler writes plan); no task, nobody logged in.
Activated(s) ==
    <<[username |-> "alice", password |-> generate_password_hash("pw1"),
       plan |-> "Premium", streak |-> s]>>

InitialUsers == {<<>>, Activated(0)}

Idle == [user_id |-> NoUser, ntasks |-> 0]

InitOver(accounts) ==
    /\ users \in accounts
    /\ tasks = <<>>
    /\ session = [c \in Clients |-> NoUser]
    /\ resp = Plain("none", "none")
    /\ inflight = [r \in Slots |-> Idle]
    /\ overlapped = FALSE
    /\ today = 0
    /\ logins = [i \in 1..Cardinality(Names) |-> <<>>]

Init == InitOver(InitialUsers)

\* the task store after the step holds at most cap rows
StoreFits(cap) == Cardinality(DOMAIN tasks') <= cap

\* a request served alone on one calendar day
Alone(cap) == StoreFits(cap) /\ UNCHANGED <<raceVars, dateVars>>

\* --------------------- several accounts, requests served one at a time
Next ==
    \/ \E name \in Names, pw \in RegisterPasswords :
          register(name, pw) /\ Alone(MaxTasks)
    \/ \E c \in Clients, name \in Names, pw \in Passwords :
          login(c, name, pw) /\ Alone(MaxTasks)
    \/ \E c \in Clients : logout(c) /\ Alone(MaxTasks)
    \/ \E c \in Clients : subscribe(c) /\ Alone(MaxTasks)
    \/ \E c \in Clients : dashboard(c, "GET", <<>>) /\ Alone(MaxTasks)
    \/ \E c \in Clients, form \in FocusForms :
          dashboard(c, "POST", form) /\ Alone(MaxTasks)
    \/ \E c \in Clients, id \in 1..MaxTasks : complete(c, id) /\ Alone(MaxTasks)
    \/ \E c \in Clients, id \in 1..MaxTasks : delete(c, id) /\ Alone(MaxTasks)

Spec == Init /\ [][Next]_vars

\* ------------- one account, a store large enough to pass the free limit
OneName == {"alice"}
GateTasks == FREE_LIMIT + ExtraTasks

NextGate ==
    \/ \E name \in OneName, pw \in RegisterPasswords :
          register(name, pw) /\ Alone(GateTasks)
    \/ \E c \in Clients, name \in OneName, pw \in Passwords :
          login(c, name, pw) /\ Alone(GateTasks)
    \/ \E c \in Clients : logout(c) /\ Alone(GateTasks)
    \/ \E c \in Clients : dashboard(c, "GET", <<>>) /\ Alone(GateTasks)
    \/ \E c \in Clients, form \in FocusForms :
          dashboard(c, "POST", form) /\ Alone(GateTasks)
    \/ \E c \in Clients, id \in 1..GateTasks : complete(c, id) /\ Alone(GateTasks)
    \/ \E c \in Clients, id \in 1..GateTasks : delete(c, id) /\ Alone(GateTasks)

SpecGate == Init /\ [][NextGate]_vars

\* ------------------ one account, dashboard POSTs that may interleave
\* dashboard POST, line 98: the request reads the account's tasks
PostBegin(r, c) ==
    /\ session[c] # NoUser
    /\ inflight[r] = Idle
    /\ inflight' = [inflight EXCEPT ![r] =
                       [user_id |-> session[c],
                        ntasks |-> GateCount(tasks, session[c])]]
    /\ overlapped' = (overlapped \/ \E q \in Slots \ {r} : inflight[q] # Idle)
    /\ UNCHANGED <<storeVars, dateVars>>

\* dashboard POST, lines 100-115: the gate on the count read, and the commit
PostCommit(r, form) ==
    /\ inflight[r] # Idle
    /\ CommitPost(inflight[r].user_id, inflight[r].ntasks, form)
    /\ inflight' = [inflight EXCEPT ![r] = Idle]
    /\ StoreFits(GateTasks)
    /\ UNCHANGED <<overlapped, dateVars>>

NextConc ==
    \/ \E name \in OneName, pw \in RegisterPasswords :
          register(name, pw) /\ Alone(GateTasks)
    \/ \E c \in Clients, name \in OneName, pw \in Passwords :
          login(c, name, pw) /\ Alone(GateTasks)
    \/ \E c \in Clients : logout(c) /\ Alone(GateTasks)
    \/ \E c \in Clients, id \in 1..GateTasks : delete(c, id) /\ Alone(GateTasks)
    \/ \E r \in Slots, c \in Clients : PostBegin(r, c)
    \/ \E r \in Slots, form \in FocusForms : PostCommit(r, form)

SpecConc == Init /\ [][NextConc]_vars

\* --------------------------- accounts and logins over calendar days
Latest2(s) == IF Len(s) > 2 THEN SubSeq(s, Len(s) - 1, Len(s)) ELSE s

Tick ==
    /\ today < MaxDay
    /\ today' = today + 1
    /\ UNCHANGED <<storeVars, raceVars, logins>>

LoginOn(c, name, pw) ==
    /\ login(c, name, pw)
    /\ logins' = IF LoginOk(name, pw)
                  THEN [logins EXCEPT ![FindUser(name)] = Latest2(Append(@, today))]
                  ELSE logins
    /\ UNCHANGED <<today, raceVars>>

NextStreak ==
    \/ \E name \in Names, pw \in RegisterPasswords :
          register(name, pw) /\ Alone(MaxTasks)
    \/ \E c \in Clients, name \in Names, pw \in Passwords : LoginOn(c, name, pw)
    \/ \E c \in Clients : logout(c) /\ Alone(MaxTasks)
    \/ Tick

\* the activated account comes with the streak its earlier completions left
InitStreak == InitOver({<<>>} \cup {Activated(s) : s \in 0..MaxStreak})

SpecStreak == InitStreak /\ [][NextStreak]_vars
\* =============================================================== claims
\* counts the claims speak of, taken from the task store itself
NumOwned(T, uid) == Cardinality({id \in DOMAIN T : T[id].user_id = uid})
NumOpen(T, uid) ==
    Cardinality({id \in DOMAIN T : T[id].user_id = uid /\ T[id].status # "Completed"})
HasPlan(c, plan) == session[c] # NoUser /\ users[session[c]].plan = plan
\* T2 is T with one more row, owned by uid
OneAdded(T, T2, uid) ==
    \E id \in DOMAIN T2 \ DOMAIN T :
        /\ DOMAIN T2 = DOMAIN T \cup {id}
        /\ T2[id].user_id = uid
        /\ \A j \in DOMAIN T : T2[j] = T[j]

\* C1: a dashboard POST by a Free account that owns 5 or more non-completed
\* tasks is answered with the limit advisory and leaves the task store as
\* it was.
C1_FreeLimitRefuses ==
    [][\A c \in Clients, form \in FocusForms :
          (/\ HasPlan(c, "Free")
           /\ NumOpen(tasks, session[c]) >= 5
           /\ dashboard(c, "POST", form))
          => (resp'.kind = "limit" /\ tasks' = tasks)]_vars

C1_Witness ==
    /\ resp.op = "dashboard_post" /\ resp.kind = "limit"
    /\ \E c \in Clients : HasPlan(c, "Free") /\ NumOpen(tasks, session[c]) >= 5

C3_PremiumNeverLimited ==
    [][\A c \in Clients, form \in FocusForms :
          (HasPlan(c, "Premium") /\ dashboard(c, "POST", form))
          => /\ resp'.kind # "limit"
             /\ form # <<>> => OneAdded(tasks, tasks', session[c])]_vars

C3_Witness ==
    /\ resp.op = "dashboard_post" /\ resp.kind = "page"
    /\ resp.total_tasks > 5
    /\ \E c \in Clients : HasPlan(c, "Premium") /\ NumOwned(tasks, session[c]) > 5

\* C4 as stated: completing a task that is not the caller's changes neither
\* that task nor any account.
C4_ForeignCompleteIsNoOp ==
    [][\A c \in Clients, id \in 1..MaxTasks :
          (/\ session[c] # NoUser
           /\ id \in DOMAIN tasks
           /\ tasks[id].user_id # session[c]
           /\ complete(c, id))
          => (tasks' = tasks /\ users' = users)]_vars

\* C5 as stated: deleting an id the task store does not hold leaves both
\* stores unchanged and answers "not found", no unhandled error.
C5_DeleteMissingNotFound ==
    [][\A c \in Clients, id \in 1..MaxTasks :
          (/\ session[c] # NoUser
           /\ id \notin DOMAIN tasks
           /\ delete(c, id))
          => (/\ tasks' = tasks /\ users' = users
              /\ resp'.kind = "not_found")]_vars

\* C6: deleting an id the task store holds removes that row alone; every
\* other row keeps all its columns and the account store is unchanged.
C6_DeleteRemovesExactlyOne ==
    [][\A c \in Clients, id \in 1..MaxTasks :
          (/\ session[c] # NoUser
           /\ id \in DOMAIN tasks
           /\ delete(c, id))
          => (/\ DOMAIN tasks' = DOMAIN tasks \ {id}
              /\ \A j \in DOMAIN tasks' : tasks'[j] = tasks[j]
              /\ users' = users)]_vars

C6_Witness ==
    /\ resp.op = "delete" /\ resp.kind = "redirect"
    /\ \E i, j \in DOMAIN tasks : tasks[i].user_id # tasks[j].user_id
    /\ \E i \in 1..MaxTasks : i \notin DOMAIN tasks /\ i < NextTaskId(tasks)

\* the day of the account's latest login
Latest(uid) == logins[uid][Len(logins[uid])]

\* C7 as stated: a successful login adds 1 to the streak when the latest
\* login was the day before, sets it to 1 when it was 2 or more days ago or
\* there was none, and leaves it when it was the same day.
C7_Original ==
    [][\A c \in Clients, name \in Names, pw \in Passwords :
          (LoginOk(name, pw) /\ LoginOn(c, name, pw))
          => LET uid == FindUser(name)
             IN  IF logins[uid] = <<>> \/ Latest(uid) <= today - 2
                 THEN users'[uid].streak = 1
                 ELSE IF Latest(uid) = today - 1
                 THEN users'[uid].streak = users[uid].streak + 1
                 ELSE users'[uid].streak = users[uid].streak]_vars

\* C7 amended: a successful login leaves the streak of every account as it
\* was, whether the latest login was the day before, 2 or more days ago,
\* the same day, or there was none.
C7_LoginKeepsStreak ==
    [][\A c \in Clients, name \in Names, pw \in Passwords :
          (LoginOk(name, pw) /\ LoginOn(c, name, pw)) => users' = users]_vars

\* logged in on two consecutive days, the streak is still 0
C7_Witness ==
    /\ resp.op = "login" /\ resp.kind = "redirect"
    /\ \E c \in Clients :
          /\ session[c] # NoUser
          /\ Len(logins[session[c]]) = 2
          /\ logins[session[c]][2] = logins[session[c]][1] + 1
          /\ logins[session[c]][2] = today
          /\ users[session[c]].streak = 0

\* C8: the completion rate of a dashboard page is 0 for an account without
\* tasks; otherwise it is 100 * completed / total rounded to the nearest
\* hundredth (kept in hundredths); it always lies between 0 and 100.
C8_CompletionRate ==
    (resp.kind = "page" /\ resp.op \in {"dashboard_get", "dashboard_post"})
    => LET t == resp.total_tasks
           k == resp.completed_tasks
           r == resp.completion_rate
       IN  /\ k <= t
           /\ t = 0 => r = 0
           /\ t > 0 => (2 * (r * t - 10000 * k) <= t /\ 2 * (10000 * k - r * t) <= t)
           /\ 0 <= r /\ r <= 10000

C8_Witness ==
    /\ resp.kind = "page" /\ resp.op = "dashboard_get"
    /\ resp.total_tasks = 3 /\ resp.completed_tasks = 2
    /\ resp.completion_rate = 6667

\* C9: a Free account can own more tasks than the limit of 5 once two of
\* its dashboard POSTs were in flight together, and only then: while the
\* requests have run one at a time no Free account owns more than 5.
FreeOverLimit ==
    \E uid \in 1..Len(users) :
        users[uid].plan = "Free" /\ NumOwned(tasks, uid) > 5

C9_OverLimitOnlyByOverlap == FreeOverLimit => overlapped

C9_Witness ==
    /\ FreeOverLimit
    /\ resp.op = "dashboard_post" /\ resp.kind = "page"
    /\ \A r \in Slots : inflight[r] = Idle

\* C10: a step leaves the owner of every task it keeps, never takes a
\* Completed task back to Pending, and every task it adds is Pending.
C10_StatusMonotoneOwnerFixed ==
    [][/\ \A id \in DOMAIN tasks \cap DOMAIN tasks' :
             /\ tasks'[id].user_id = tasks[id].user_id
             /\ tasks[id].status = "Completed" => tasks'[id].status = "Completed"
             /\ tasks'[id].status \in {"Pending", "Completed"}
       /\ \A id \in DOMAIN tasks' \ DOMAIN tasks : tasks'[id].status = "Pending"]_vars

C10_Witness ==
    /\ resp.op = "dashboard_post" /\ resp.kind = "page"
    /\ \E i, j \in DOMAIN tasks :
          /\ tasks[i].status = "Completed" /\ tasks[j].status = "Pending"
          /\ tasks[i].user_id # tasks[j].user_id
====
